---- MODULE Spec2Model ----
(***************************************************************************)
(* Model of the two-image stitching script stitching_1.py: image load,     *)
(* feature detection, k-nearest-neighbour matching, ratio-test filter,     *)
(* match-count gate, homography estimation, canvas planning, perspective   *)
(* warp, paste of the second image and write of the composite.             *)
(*                                                                         *)
(* Conventions.  A pixel image is a record [w, h, px] with px a sequence   *)
(* of h rows of w values in 0..255; pixel (x, y), 0-based, is              *)
(* px[y+1][x+1].  The value None of Python is modelled by NoneImg for an   *)
(* image and NoneH for a matrix.  A 3x3 matrix is a tuple of three rows of *)
(* integers and stands for a real matrix up to a positive scale (the       *)
(* matrix divided by a common denominator); every use below (perspective   *)
(* division, singularity) is invariant under that scale.  A real           *)
(* coordinate is an exact fraction <<n, d>> with d > 0.                     *)
(***************************************************************************)
EXTENDS Integers, Sequences, FiniteSets, TLC

\* state of the stitching script
VARIABLES pc, img1, img2, matches, good_matches, H, inliers,
          x_min, y_min, x_max, y_max, translation_dist, M,
          warped, result, file, raised, raisedAt, printed

\* state of the render script camera_render_with_rover_2.py
VARIABLES rpc, objects, cameraData, sceneCamera, engine, settings,
          render_count, cameras, camIdx, roverIdx, rendered, lastArgs

stitchVars == <<pc, img1, img2, matches, good_matches, H, inliers,
                x_min, y_min, x_max, y_max, translation_dist, M,
                warped, result, file, raised, raisedAt, printed>>

renderVars == <<rpc, objects, cameraData, sceneCamera, engine, settings,
                render_count, cameras, camIdx, roverIdx, rendered, lastArgs>>

vars == <<stitchVars, renderVars>>

-----------------------------------------------------------------------------
(* Bounds of the model.                                                    *)

\* largest width and height of an input image
MaxDim == 2
\* largest descriptor distance of a candidate neighbour
MaxDist == 4
\* longest candidate sequence enumerated over all distance pairs
MaxShort == 2
\* longest candidate sequence of the good-then-ambiguous family
MaxMatches == 12
\* largest shift, in pixels, of the translation homographies
MaxShift == 1

(* Program constants.                                                      *)

\* 0.75 of the ratio test, as the fraction RatioNum / RatioDen
RatioNum == 3
RatioDen == 4
\* the 10 of "len(good_matches) > 10"
MinGoodMatches == 10
\* INTER_BITS of the fixed-point bilinear resampling of cv2.warpPerspective
InterTabSize == 32

-----------------------------------------------------------------------------
(* Values.                                                                 *)

NoneImg == [w |-> 0, h |-> 0, px |-> <<>>]
NoneH == <<>>
NoCanvas == [w |-> 0, h |-> 0, px |-> <<>>]

IsNone(img) == img.w = 0

\* names of Blender objects: "Camera_<id>" is <<"Camera_", id>>, any other
\* name <<text, 0>>; an object name is a base name and the numeric suffix
\* (".001", ".002", ...) Blender appends to keep names unique, 0 for none
NoName == [base |-> <<"", 0>>, suffix |-> 0]
\* render settings never written, and the value None of the YAML loader
NoSettings == [resolution |-> <<0, 0>>, filepath |-> <<0, "">>]
NoYaml == [ok |-> FALSE, list |-> <<>>]

\* The image cv2.imread decoded: w x h pixels, pixel (x, y) = base + x + w*y.
Image(w, h, base) ==
    [w |-> w, h |-> h,
     px |-> [y \in 1..h |-> [x \in 1..w |-> base + (x - 1) + w * (y - 1)]]]

Sizes == (1..MaxDim) \X (1..MaxDim)

\* outcomes of cv2.imread for the first and the second file
Images1 == {Image(s[1], s[2], 10) : s \in Sizes} \cup {NoneImg}
Images2 == {Image(s[1], s[2], 200) : s \in Sizes} \cup {NoneImg}

-----------------------------------------------------------------------------
(* Candidate matches: the result of bf.knnMatch(des1, des2, k=2) is one    *)
(* list per query descriptor holding its nearest neighbours by increasing  *)
(* distance, two of them, or one when the train set has one descriptor.    *)

Pairs == {p \in (0..MaxDist) \X (0..MaxDist) : p[1] <= p[2]}
Singles == {<<d>> : d \in 0..MaxDist}

RECURSIVE SeqsUpTo(_, _)
SeqsUpTo(S, n) ==
    IF n = 0 THEN {<<>>}
    ELSE LET shorter == SeqsUpTo(S, n - 1)
         IN  shorter \cup {Append(s, e) : s \in {t \in shorter : Len(t) = n - 1}, e \in S}

\* k unambiguous candidates followed by n - k candidates on the boundary
GoodThenBoundary(n, k) ==
    [i \in 1..n |-> IF i <= k THEN <<2, 4>> ELSE <<3, 4>>]

\* n candidates with a single neighbour each
SingleNeighbour(n) == [i \in 1..n |-> <<2>>]

\* the candidate sequences of a run of the whole script
MatchInputs ==
    {GoodThenBoundary(n, k) : n \in 0..MaxMatches, k \in 0..MaxMatches}
    \cup {SingleNeighbour(n) : n \in 1..MaxMatches}

\* the candidate sequences the filter is enumerated over
FilterInputs ==
    SeqsUpTo(Pairs, MaxShort) \cup SeqsUpTo(Singles, MaxShort)

-----------------------------------------------------------------------------
(* Ratio test, stitching_1.py line 18:                                     *)
(*   good_matches = [m for m, n in matches if m.distance < 0.75*n.distance] *)
(* Distances are float32 values and 0.75 is a dyadic fraction, so the      *)
(* product is exact in double precision and the comparison is the integer  *)
(* comparison below.                                                       *)

\* the ratio test with the boundary included
RatioTestInclusive(mDistance, nDistance) ==
    RatioDen * mDistance <= RatioNum * nDistance

RatioTest(mDistance, nDistance) ==
    RatioDen * mDistance < RatioNum * nDistance

\* "for m, n in matches" unpacks every element into exactly two names
Unpackable(ms) == \A i \in 1..Len(ms) : Len(ms[i]) = 2

\* the best neighbour m of query i, a DMatch
DMatch(ms, i) == [queryIdx |-> i - 1, distance |-> ms[i][1]]

RECURSIVE GoodMatchesFrom(_, _)
GoodMatchesFrom(ms, i) ==
    IF i > Len(ms) THEN <<>>
    ELSE IF RatioTest(ms[i][1], ms[i][2])
         THEN <<DMatch(ms, i)>> \o GoodMatchesFrom(ms, i + 1)
         ELSE GoodMatchesFrom(ms, i + 1)

GoodMatches(ms) == GoodMatchesFrom(ms, 1)

-----------------------------------------------------------------------------
(* Steps of the script.  pc names the statement that runs next; "done" is  *)
(* the end of the script and "exc" an uncaught exception.                  *)

Raise(type, at) ==
    /\ pc' = "exc"
    /\ raised' = type
    /\ raisedAt' = at

\* the stitching script before its first statement
StitchStart ==
    /\ pc = "load"
    /\ img1 = NoneImg
    /\ img2 = NoneImg
    /\ matches = <<>>
    /\ good_matches = <<>>
    /\ H = NoneH
    /\ inliers = 0
    /\ x_min = 0 /\ y_min = 0 /\ x_max = 0 /\ y_max = 0
    /\ translation_dist = <<0, 0>>
    /\ M = NoneH
    /\ warped = NoCanvas
    /\ result = NoCanvas
    /\ file = NoCanvas
    /\ raised = "none"
    /\ raisedAt = "none"
    /\ printed = FALSE

\* the render script is not run
RenderIdle ==
    /\ rpc = "idle"
    /\ objects = {}
    /\ cameraData = {}
    /\ sceneCamera = NoName
    /\ engine = "CYCLES"
    /\ settings = NoSettings
    /\ render_count = 0
    /\ cameras = NoYaml
    /\ camIdx = 0
    /\ roverIdx = 0
    /\ rendered = FALSE
    /\ lastArgs = <<>>

Init == StitchStart /\ RenderIdle

\* lines 5-6: cv2.imread returns the decoded image, or None
Load ==
    /\ pc = "load"
    /\ img1' \in Images1
    /\ img2' \in Images2
    /\ pc' = "detect"
    /\ UNCHANGED <<matches, good_matches, H, inliers, x_min, y_min, x_max,
                   y_max, translation_dist, M, warped, result, file,
                   raised, raisedAt, printed>>
    /\ UNCHANGED renderVars

\* feature detection that accepts an empty image
DetectAcceptsEmpty ==
    /\ pc = "detect"
    /\ pc' = "match"
    /\ UNCHANGED <<img1, img2, matches, good_matches, H, inliers, x_min,
                   y_min, x_max, y_max, translation_dist, M, warped, result,
                   file, raised, raisedAt, printed>>
    /\ UNCHANGED renderVars

\* lines 9-11: sift.detectAndCompute raises cv2.error on an empty image
Detect ==
    /\ pc = "detect"
    /\ IF IsNone(img1) \/ IsNone(img2)
       THEN Raise("cv2.error", "detectAndCompute")
       ELSE pc' = "match" /\ UNCHANGED <<raised, raisedAt>>
    /\ UNCHANGED <<img1, img2, matches, good_matches, H, inliers, x_min,
                   y_min, x_max, y_max, translation_dist, M, warped, result,
                   file, printed>>
    /\ UNCHANGED renderVars

\* lines 14-15: bf.knnMatch(des1, des2, k=2)
Match ==
    /\ pc = "match"
    /\ matches' \in MatchInputs
    /\ pc' = "filter"
    /\ UNCHANGED <<img1, img2, good_matches, H, inliers, x_min, y_min,
                   x_max, y_max, translation_dist, M, warped, result, file,
                   raised, raisedAt, printed>>
    /\ UNCHANGED renderVars

\* line 18
Filter ==
    /\ pc = "filter"
    /\ IF Unpackable(matches)
       THEN /\ good_matches' = GoodMatches(matches)
            /\ pc' = "gate"
            /\ UNCHANGED <<raised, raisedAt>>
       ELSE /\ Raise("ValueError", "filter")
            /\ UNCHANGED good_matches
    /\ UNCHANGED <<img1, img2, matches, H, inliers, x_min, y_min, x_max,
                   y_max, translation_dist, M, warped, result, file, printed>>
    /\ UNCHANGED renderVars

\* the gate at the minimum of a 4-point fit
EnoughMatchesFromFour(n) == n >= 4

\* line 21 and the else branch, lines 63-64
EnoughMatches(n) == n > MinGoodMatches

\* a gate whose else branch falls through to the fit
GateFallsThrough ==
    /\ pc = "gate"
    /\ pc' = "fit"
    /\ printed' = ~EnoughMatches(Len(good_matches))
    /\ UNCHANGED <<img1, img2, matches, good_matches, H, inliers, x_min,
                   y_min, x_max, y_max, translation_dist, M, warped, result,
                   file, raised, raisedAt>>
    /\ UNCHANGED renderVars

Gate ==
    /\ pc = "gate"
    /\ IF EnoughMatches(Len(good_matches))
       THEN pc' = "fit" /\ UNCHANGED printed
       ELSE pc' = "done" /\ printed' = TRUE
    /\ UNCHANGED <<img1, img2, matches, good_matches, H, inliers, x_min,
                   y_min, x_max, y_max, translation_dist, M, warped, result,
                   file, raised, raisedAt>>
    /\ UNCHANGED renderVars

-----------------------------------------------------------------------------
(* Integer and fraction arithmetic.                                        *)

\* floor and ceiling of n / d, d > 0
Floor(n, d) == n \div d
Ceil(n, d) == -((-n) \div d)

\* np.int32(float): the value converted to an integer by truncation
\* toward zero
Int32(q) == IF q[1] >= 0 THEN q[1] \div q[2] ELSE -((-q[1]) \div q[2])

\* cvRound: nearest integer of n / d, halves to the even neighbour
CvRound(n, d) ==
    LET f == n \div d
        r == n - f * d
    IN  IF 2 * r < d THEN f
        ELSE IF 2 * r > d THEN f + 1
        ELSE IF f % 2 = 0 THEN f ELSE f + 1

Frac(n, d) == IF d < 0 THEN <<-n, -d>> ELSE <<n, d>>

FracLeq(a, b) == a[1] * b[2] <= b[1] * a[2]

\* all_corners.min(axis=0) and .max(axis=0) on one coordinate
FracMin(S) == CHOOSE a \in S : \A b \in S : FracLeq(a, b)
FracMax(S) == CHOOSE a \in S : \A b \in S : FracLeq(b, a)

-----------------------------------------------------------------------------
(* 3x3 matrices.                                                           *)

Identity == <<<<1, 0, 0>>, <<0, 1, 0>>, <<0, 0, 1>>>>
ZeroMatrix == <<<<0, 0, 0>>, <<0, 0, 0>>, <<0, 0, 0>>>>

MatMul(A, B) ==
    [i \in 1..3 |-> [j \in 1..3 |->
        A[i][1] * B[1][j] + A[i][2] * B[2][j] + A[i][3] * B[3][j]]]

Det(A) ==
      A[1][1] * (A[2][2] * A[3][3] - A[2][3] * A[3][2])
    - A[1][2] * (A[2][1] * A[3][3] - A[2][3] * A[3][1])
    + A[1][3] * (A[2][1] * A[3][2] - A[2][2] * A[3][1])

\* the adjugate: Det(A) times the inverse of A
Adj(A) ==
    <<<<A[2][2] * A[3][3] - A[2][3] * A[3][2],
        A[1][3] * A[3][2] - A[1][2] * A[3][3],
        A[1][2] * A[2][3] - A[1][3] * A[2][2]>>,
      <<A[2][3] * A[3][1] - A[2][1] * A[3][3],
        A[1][1] * A[3][3] - A[1][3] * A[3][1],
        A[1][3] * A[2][1] - A[1][1] * A[2][3]>>,
      <<A[2][1] * A[3][2] - A[2][2] * A[3][1],
        A[1][2] * A[3][1] - A[1][1] * A[3][2],
        A[1][1] * A[2][2] - A[1][2] * A[2][1]>>>>

\* cv::invert inside cv2.warpPerspective: the inverse up to scale, and the
\* zero matrix when the matrix is singular
Invert(A) == IF Det(A) = 0 THEN ZeroMatrix ELSE Adj(A)

\* line 47-49
HTranslation(t) == <<<<1, 0, t[1]>>, <<0, 1, t[2]>>, <<0, 0, 1>>>>

\* the matrices cv2.findHomography may return
Shifts == {<<<<1, 0, dx>>, <<0, 1, dy>>, <<0, 0, 1>>>> :
              dx \in -MaxShift..MaxShift, dy \in -MaxShift..MaxShift}
HalfShifts == {<<<<2, 0, hx>>, <<0, 2, hy>>, <<0, 0, 2>>>> :
                  hx \in {-1, 1}, hy \in {-1, 1}}
Others == { <<<<3, 0, 0>>, <<0, 3, 0>>, <<0, 0, 2>>>>,
            <<<<1, 0, 0>>, <<0, 0, 0>>, <<0, 0, 1>>>>,
            <<<<2, 0, 0>>, <<0, 2, 0>>, <<1, 0, 2>>>>,
            <<<<1, 0, 0>>, <<0, 1, 0>>, <<-1, 0, 1>>>>,
            <<<<-1, 0, 0>>, <<0, 1, 0>>, <<0, 0, 1>>>>,
            <<<<0, -3, 1>>, <<3, 0, -1>>, <<0, 0, 2>>>> }
Homographies == Shifts \cup HalfShifts \cup Others

-----------------------------------------------------------------------------
(* Canvas planning, lines 30-46.                                           *)

\* cv2.perspectiveTransform of one point: <<x', y'>> as fractions; a point
\* whose third homogeneous coordinate is zero is mapped to (0, 0)
PerspectiveTransform(pt, A) ==
    LET X == A[1][1] * pt[1] + A[1][2] * pt[2] + A[1][3]
        Y == A[2][1] * pt[1] + A[2][2] * pt[2] + A[2][3]
        W == A[3][1] * pt[1] + A[3][2] * pt[2] + A[3][3]
    IN  IF W = 0 THEN <<<<0, 1>>, <<0, 1>>>>
        ELSE <<Frac(X, W), Frac(Y, W)>>

\* lines 34-35
Corners(img) == {<<0, 0>>, <<0, img.h>>, <<img.w, img.h>>, <<img.w, 0>>}

\* the corners of the first image only
AllCornersOfFirst(A, imgA, imgB) ==
    {PerspectiveTransform(c, A) : c \in Corners(imgA)}

\* line 38 and line 41
AllCorners(A, imgA, imgB) ==
    {PerspectiveTransform(c, A) : c \in Corners(imgA)}
    \cup {<<<<c[1], 1>>, <<c[2], 1>>>> : c \in Corners(imgB)}

\* lines 42-43
BoxMin(all, axis) == Int32(FracMin({c[axis] : c \in all}))

\* the upper bound taken with min, as the lower bound is
BoxMaxTakesMin(all, axis) == Int32(FracMin({c[axis] : c \in all}))

BoxMax(all, axis) == Int32(FracMax({c[axis] : c \in all}))

-----------------------------------------------------------------------------
(* cv2.warpPerspective(img1, M, (w, h)), line 52: default flags, bilinear  *)
(* interpolation on 8-bit pixels, constant border of value 0.  Each        *)
(* destination pixel is mapped through the inverse of M; the source        *)
(* coordinate is rounded to 1/InterTabSize of a pixel and the four         *)
(* neighbouring source pixels are blended with fixed-point weights.        *)

\* a source pixel, or the border value outside the image
PixelAt(img, sx, sy) ==
    IF sx >= 0 /\ sx < img.w /\ sy >= 0 /\ sy < img.h
    THEN img.px[sy + 1][sx + 1]
    ELSE 0

\* source coordinate of destination pixel (x, y), in 1/InterTabSize pixels
SourceCoord(inv, x, y) ==
    LET X0 == inv[1][1] * x + inv[1][2] * y + inv[1][3]
        Y0 == inv[2][1] * x + inv[2][2] * y + inv[2][3]
        W0 == inv[3][1] * x + inv[3][2] * y + inv[3][3]
    IN  IF W0 = 0 THEN <<0, 0>>
        ELSE LET fx == Frac(InterTabSize * X0, W0)
                 fy == Frac(InterTabSize * Y0, W0)
             IN  <<CvRound(fx[1], fx[2]), CvRound(fy[1], fy[2])>>

Bilinear(img, q) ==
    LET sx == q[1] \div InterTabSize
        sy == q[2] \div InterTabSize
        ax == q[1] % InterTabSize
        ay == q[2] % InterTabSize
        S  == (InterTabSize - ax) * (InterTabSize - ay) * PixelAt(img, sx, sy)
              + ax * (InterTabSize - ay) * PixelAt(img, sx + 1, sy)
              + (InterTabSize - ax) * ay * PixelAt(img, sx, sy + 1)
              + ax * ay * PixelAt(img, sx + 1, sy + 1)
        one == InterTabSize * InterTabSize
    IN  (2 * S + one) \div (2 * one)

WarpPerspective(img, A, w, h) ==
    LET inv == Invert(A)
    IN  [w |-> w, h |-> h,
         px |-> [y \in 1..h |-> [x \in 1..w |->
                    Bilinear(img, SourceCoord(inv, x - 1, y - 1))]]]

-----------------------------------------------------------------------------
(* result[ty:ty+height2, tx:tx+width2] = img2, lines 55-56: assignment to  *)
(* a numpy slice.                                                          *)

\* an index of a Python slice on an axis of length len
SliceIndex(i, len) ==
    IF i < 0 THEN (IF i + len < 0 THEN 0 ELSE i + len)
    ELSE IF i > len THEN len ELSE i

\* the half-open index range <<lo, hi>> of start:stop on an axis
SliceRange(start, stop, len) ==
    LET lo == SliceIndex(start, len)
        hi == SliceIndex(stop, len)
    IN  <<lo, IF hi < lo THEN lo ELSE hi>>

\* the value img can be broadcast to the shape of the slice
Broadcastable(img, rows, cols) ==
    /\ (rows[2] - rows[1] = img.h \/ img.h = 1)
    /\ (cols[2] - cols[1] = img.w \/ img.w = 1)

\* a paste that fills only background pixels of the canvas
PasteIntoBackgroundOnly(canvas, img, t) ==
    LET rows == SliceRange(t[2], t[2] + img.h, canvas.h)
        cols == SliceRange(t[1], t[1] + img.w, canvas.w)
    IN  [canvas EXCEPT !.px =
            [y \in 1..canvas.h |-> [x \in 1..canvas.w |->
                IF /\ y - 1 >= rows[1] /\ y - 1 < rows[2]
                   /\ x - 1 >= cols[1] /\ x - 1 < cols[2]
                   /\ canvas.px[y][x] = 0
                THEN img.px[IF img.h = 1 THEN 1 ELSE y - rows[1]]
                           [IF img.w = 1 THEN 1 ELSE x - cols[1]]
                ELSE canvas.px[y][x]]]]

\* a paste onto a blank canvas instead of the warped one
PasteIntoBlank(canvas, img, t) ==
    LET rows == SliceRange(t[2], t[2] + img.h, canvas.h)
        cols == SliceRange(t[1], t[1] + img.w, canvas.w)
    IN  [canvas EXCEPT !.px =
            [y \in 1..canvas.h |-> [x \in 1..canvas.w |->
                IF /\ y - 1 >= rows[1] /\ y - 1 < rows[2]
                   /\ x - 1 >= cols[1] /\ x - 1 < cols[2]
                THEN img.px[IF img.h = 1 THEN 1 ELSE y - rows[1]]
                           [IF img.w = 1 THEN 1 ELSE x - cols[1]]
                ELSE 0]]]

PasteInto(canvas, img, t) ==
    LET rows == SliceRange(t[2], t[2] + img.h, canvas.h)
        cols == SliceRange(t[1], t[1] + img.w, canvas.w)
    IN  [canvas EXCEPT !.px =
            [y \in 1..canvas.h |-> [x \in 1..canvas.w |->
                IF /\ y - 1 >= rows[1] /\ y - 1 < rows[2]
                   /\ x - 1 >= cols[1] /\ x - 1 < cols[2]
                THEN img.px[IF img.h = 1 THEN 1 ELSE y - rows[1]]
                           [IF img.w = 1 THEN 1 ELSE x - cols[1]]
                ELSE canvas.px[y][x]]]]

PasteFits(canvas, img, t) ==
    Broadcastable(img, SliceRange(t[2], t[2] + img.h, canvas.h),
                       SliceRange(t[1], t[1] + img.w, canvas.w))

-----------------------------------------------------------------------------
(* Remaining steps of the script.                                          *)

\* the inlier counts enumerated for a fit on n correspondences
InlierCounts(n) ==
    {k \in 4..n : k \in {4, MinGoodMatches - 1, MinGoodMatches, n}}

\* lines 23-27: cv2.findHomography(src_pts, dst_pts, cv2.RANSAC, 5.0) returns
\* a matrix supported by at least 4 inliers, or None; the inlier mask is
\* discarded ("H, _ =")
Fit ==
    /\ pc = "fit"
    /\ \/ /\ H' \in Homographies
          /\ inliers' \in InlierCounts(Len(good_matches))
       \/ /\ H' = NoneH
          /\ inliers' = 0
    /\ pc' = "plan"
    /\ UNCHANGED <<img1, img2, matches, good_matches, x_min, y_min, x_max,
                   y_max, translation_dist, M, warped, result, file,
                   raised, raisedAt, printed>>
    /\ UNCHANGED renderVars

\* canvas planning that puts the identity in place of a missing transform
PlanDefaultsToIdentity ==
    /\ pc = "plan"
    /\ LET A == IF H = NoneH THEN Identity ELSE H
           all == AllCorners(A, img1, img2)
       IN  /\ H' = A
           /\ x_min' = BoxMin(all, 1)
           /\ y_min' = BoxMin(all, 2)
           /\ x_max' = BoxMax(all, 1)
           /\ y_max' = BoxMax(all, 2)
           /\ translation_dist' = <<-BoxMin(all, 1), -BoxMin(all, 2)>>
           /\ pc' = "warp"
    /\ UNCHANGED <<img1, img2, matches, good_matches, inliers, M, warped,
                   result, file, raised, raisedAt, printed>>
    /\ UNCHANGED renderVars

\* lines 30-46: cv2.perspectiveTransform raises cv2.error when H is None
Plan ==
    /\ pc = "plan"
    /\ IF H = NoneH
       THEN /\ Raise("cv2.error", "perspectiveTransform")
            /\ UNCHANGED <<x_min, y_min, x_max, y_max, translation_dist>>
       ELSE LET all == AllCorners(H, img1, img2)
            IN  /\ x_min' = BoxMin(all, 1)
                /\ y_min' = BoxMin(all, 2)
                /\ x_max' = BoxMax(all, 1)
                /\ y_max' = BoxMax(all, 2)
                /\ translation_dist' = <<-BoxMin(all, 1), -BoxMin(all, 2)>>
                /\ pc' = "warp"
                /\ UNCHANGED <<raised, raisedAt>>
    /\ UNCHANGED <<img1, img2, matches, good_matches, H, inliers, M, warped,
                   result, file, printed>>
    /\ UNCHANGED renderVars

\* the warp matrix without the homography
WarpMatrixTranslationOnly(t, A) == HTranslation(t)

\* lines 47-52: H_translation @ H
WarpMatrix(t, A) == MatMul(HTranslation(t), A)

\* line 52: cv2.warpPerspective raises cv2.error on an empty destination size
Warp ==
    /\ pc = "warp"
    /\ M' = WarpMatrix(translation_dist, H)
    /\ IF x_max - x_min <= 0 \/ y_max - y_min <= 0
       THEN /\ Raise("cv2.error", "warpPerspective")
            /\ UNCHANGED <<warped, result>>
       ELSE /\ result' = WarpPerspective(img1, WarpMatrix(translation_dist, H),
                                         x_max - x_min, y_max - y_min)
            /\ warped' = result'
            /\ pc' = "paste"
            /\ UNCHANGED <<raised, raisedAt>>
    /\ UNCHANGED <<img1, img2, matches, good_matches, H, inliers, x_min,
                   y_min, x_max, y_max, translation_dist, file, printed>>
    /\ UNCHANGED renderVars

\* a paste whose target buffer is the first input image
PasteAliasesInput ==
    /\ pc = "paste"
    /\ img1' = PasteInto(img1, img2, <<0, 0>>)
    /\ result' = PasteInto(result, img2, translation_dist)
    /\ pc' = "write"
    /\ UNCHANGED <<img2, matches, good_matches, H, inliers, x_min, y_min,
                   x_max, y_max, translation_dist, M, warped, file, raised,
                   raisedAt, printed>>
    /\ UNCHANGED renderVars

\* lines 55-56: numpy raises ValueError when img2 does not fit the slice
Paste ==
    /\ pc = "paste"
    /\ IF PasteFits(result, img2, translation_dist)
       THEN /\ result' = PasteInto(result, img2, translation_dist)
            /\ pc' = "write"
            /\ UNCHANGED <<raised, raisedAt>>
       ELSE /\ Raise("ValueError", "paste")
            /\ UNCHANGED result
    /\ UNCHANGED <<img1, img2, matches, good_matches, H, inliers, x_min,
                   y_min, x_max, y_max, translation_dist, M, warped, file,
                   printed>>
    /\ UNCHANGED renderVars

\* line 59: cv2.imwrite encodes result to the file, or returns False; the
\* returned flag is not read
Write ==
    /\ pc = "write"
    /\ \/ file' = result
       \/ UNCHANGED file
    /\ pc' = "waitkey"
    /\ UNCHANGED <<img1, img2, matches, good_matches, H, inliers, x_min,
                   y_min, x_max, y_max, translation_dist, M, warped, result,
                   raised, raisedAt, printed>>
    /\ UNCHANGED renderVars

\* lines 61-62: cv2.waitKey(0) waits for a key event without a time limit.
\* No window was opened (line 60 is commented out), and what the call does
\* then depends on the HighGUI backend of the build: it returns at once, it
\* raises cv2.error (build without GUI support), or it waits for a key
\* event (backend that does not test for open windows)
WaitKey ==
    /\ pc = "waitkey"
    /\ \/ pc' = "done" /\ UNCHANGED <<raised, raisedAt>>
       \/ Raise("cv2.error", "waitKey")
       \/ pc' = "keywait" /\ UNCHANGED <<raised, raisedAt>>
    /\ UNCHANGED <<img1, img2, matches, good_matches, H, inliers, x_min,
                   y_min, x_max, y_max, translation_dist, M, warped, result,
                   file, printed>>
    /\ UNCHANGED renderVars

\* line 61: a key event of the user ends the wait of cv2.waitKey(0)
KeyPress ==
    /\ pc = "keywait"
    /\ pc' = "done"
    /\ UNCHANGED <<img1, img2, matches, good_matches, H, inliers, x_min,
                   y_min, x_max, y_max, translation_dist, M, warped, result,
                   file, raised, raisedAt, printed>>
    /\ UNCHANGED renderVars

Next ==
    \/ Load
    \/ Detect
    \/ Match
    \/ Filter
    \/ Gate
    \/ Fit
    \/ Plan
    \/ Warp
    \/ Paste
    \/ Write
    \/ WaitKey
    \/ KeyPress

Spec == Init /\ [][Next]_vars

-----------------------------------------------------------------------------
(* The ratio-test filter and the gate on their own, over every short       *)
(* candidate sequence: the script stands at line 18 with two decoded       *)
(* images and the candidates knnMatch returned.                            *)

InitFilter ==
    /\ pc = "filter"
    /\ img1 = Image(1, 1, 10)
    /\ img2 = Image(1, 1, 200)
    /\ matches \in FilterInputs
    /\ good_matches = <<>>
    /\ H = NoneH
    /\ inliers = 0
    /\ x_min = 0 /\ y_min = 0 /\ x_max = 0 /\ y_max = 0
    /\ translation_dist = <<0, 0>>
    /\ M = NoneH
    /\ warped = NoCanvas
    /\ result = NoCanvas
    /\ file = NoCanvas
    /\ raised = "none"
    /\ raisedAt = "none"
    /\ printed = FALSE
    /\ RenderIdle

NextFilter ==
    \/ Filter
    \/ Gate

SpecFilter == InitFilter /\ [][NextFilter]_vars

-----------------------------------------------------------------------------
(* The render script camera_render_with_rover_2.py.  A Blender object is a *)
(* record [name, type, data, location, rotation]: data is the name of the  *)
(* camera data-block a camera object is bound to (NoName for an object of  *)
(* another type).  Lengths are in tenths of a metre and angles in degrees, *)
(* so the rover poses of lines 20-41 are integer triples.  rpc names the   *)
(* statement that runs next: "stopped" is exit(), "crashed" an uncaught    *)
(* exception, "done" the end of the script.                                *)

\* most entries of the YAML camera list, and the largest camera id in it
MaxCams == 2
MaxCamId == 2

resolution_width_px == 1920
resolution_height_px == 1200

LOCAL_ORIGIN_NAME == <<"local", 0>>
L_MARKER_NAME == <<"frame_calibration_L", 0>>
rover_name == <<"rover", 0>>

\* f"Camera_{cam_id}", line 202
CameraName(cam_id) == <<"Camera_", cam_id>>

rover_positions ==
    << [id |-> "at_frame_origin", location |-> <<0, 0, 9>>,  rotation |-> <<0, 0, 0>>],
       [id |-> "frame_right",     location |-> <<10, 0, 0>>, rotation |-> <<0, 0, 0>>],
       [id |-> "frame_down",      location |-> <<0, 10, 0>>, rotation |-> <<0, 0, 0>>],
       [id |-> "frame_diagonal",  location |-> <<5, 5, 0>>,  rotation |-> <<0, 0, 45>> ] >>

\* the name `base` without a suffix
Name(base) == [base |-> base, suffix |-> 0]

\* `name in bpy.data.objects` and bpy.data.objects[name]
Contains(objs, base) == \E o \in objs : o.name = Name(base)

Lookup(objs, base) == CHOOSE o \in objs : o.name = Name(base)

\* the name a new data-block gets: `base`, or `base` with the first unused
\* suffix when the name is taken
FreeName(names, base) ==
    LET k == CHOOSE k \in 0..Cardinality(names) :
                 /\ [base |-> base, suffix |-> k] \notin names
                 /\ \A j \in 0..(k - 1) : [base |-> base, suffix |-> j] \in names
    IN  [base |-> base, suffix |-> k]

Object(name, type, data, location, rotation) ==
    [name |-> name, type |-> type, data |-> data,
     location |-> location, rotation |-> rotation]

\* scenes the script may be started in: the local origin (at one of two
\* places), the L-marker and the rover are each there or not, and an object
\* named Camera_1 (a camera left by an earlier run, or a mesh) may exist
LocalOrigins == {<<0, 0, 0>>, <<20, -10, 0>>}

FrameObjects ==
    {{}} \cup {{Object(Name(LOCAL_ORIGIN_NAME), "EMPTY", NoName, l, <<0, 0, 0>>)} :
                  l \in LocalOrigins}

MarkerObjects ==
    {{}, {Object(Name(L_MARKER_NAME), "MESH", NoName, <<0, 0, 0>>, <<0, 0, 0>>)}}

RoverObjects ==
    {{}, {Object(Name(rover_name), "MESH", NoName, <<30, 30, 0>>, <<0, 0, 90>>)}}

LeftOverObjects ==
    {{},
     {Object(Name(CameraName(1)), "CAMERA", Name(CameraName(1)), <<7, 7, 7>>, <<0, 0, 0>>)},
     {Object(Name(CameraName(1)), "MESH", NoName, <<7, 7, 7>>, <<0, 0, 0>>)}}

Scenes ==
    {f \cup m \cup r \cup c :
        f \in FrameObjects, m \in MarkerObjects, r \in RoverObjects, c \in LeftOverObjects}

\* the camera data-blocks of a scene: those its camera objects are bound to
CameraDataOf(objs) == {o.data : o \in {c \in objs : c.type = "CAMERA"}}

\* entries of the YAML file: an id and one of two poses
CameraPoses ==
    {[location |-> <<0, 0, 50>>, rotation |-> <<0, 0, 0>>],
     [location |-> <<10, 0, 50>>, rotation |-> <<0, 30, 90>>]}

CameraEntries ==
    {[id |-> i, location |-> p.location, rotation |-> p.rotation] :
        i \in 1..MaxCamId, p \in CameraPoses}

CameraLists == UNION {[1..n -> CameraEntries] : n \in 0..MaxCams}

\* what load_cameras_from_yaml returns: None, or the file's content
YamlOutcomes == {NoYaml} \cup {[ok |-> TRUE, list |-> l] : l \in CameraLists}

\* the arguments of the latest create_or_update_camera call for a name
NoPose == <<>>

\* verify_and_lock_objects, lines 47-60: TRUE when it returns the two
\* objects, FALSE when it returns (None, None)
VerifyLocalOnly(objs) == Contains(objs, LOCAL_ORIGIN_NAME)

VerifyAndLockObjects(objs) ==
    Contains(objs, LOCAL_ORIGIN_NAME) /\ Contains(objs, L_MARKER_NAME)

\* verify_rover_exists, lines 62-71: TRUE when it returns the rover
VerifyRoverExists(objs) == Contains(objs, rover_name)

\* create_or_update_camera, lines 73-96: the objects and the camera
\* data-blocks after the call, and the object it returns
CreateOrUpdateCamera(objs, data, name, location, rotation) ==
    LET kept == IF Contains(objs, name)
                THEN objs \ {Lookup(objs, name)}
                ELSE objs
        camera_data == FreeName(data, name)
        camera_obj == Object(FreeName({o.name : o \in kept}, name), "CAMERA",
                             camera_data, location, rotation)
    IN  [objects |-> kept \cup {camera_obj},
         cameras |-> data \cup {camera_data},
         camera  |-> camera_obj.name]

\* the rover placed at a frame position, and the origin displaced with it
MoveRoverAndOrigin(objs, location_in_frame, rotation, local_origin_loc) ==
    LET world_location == <<location_in_frame[1] + local_origin_loc[1],
                            location_in_frame[2] + local_origin_loc[2],
                            location_in_frame[3] + local_origin_loc[3]>>
    IN  {IF o.name = Name(rover_name)
         THEN [o EXCEPT !.location = world_location, !.rotation = rotation]
         ELSE IF o.name = Name(LOCAL_ORIGIN_NAME)
              THEN [o EXCEPT !.location = world_location]
              ELSE o : o \in objs}

\* move_rover_in_frame, lines 98-123, when it returns True
MoveRoverInFrame(objs, location_in_frame, rotation, local_origin_loc) ==
    LET world_location == <<location_in_frame[1] + local_origin_loc[1],
                            location_in_frame[2] + local_origin_loc[2],
                            location_in_frame[3] + local_origin_loc[3]>>
    IN  {IF o.name = Name(rover_name)
         THEN [o EXCEPT !.location = world_location, !.rotation = rotation]
         ELSE o : o \in objs}

\* set_render_settings, lines 125-133; the path carries the two ids
SetRenderSettings(resolution_x, resolution_y, output_path) ==
    [resolution |-> <<resolution_x, resolution_y>>, filepath |-> output_path]

\* the script opened in one of the scenes, before its first statement
InitRender ==
    /\ StitchStart
    /\ rpc = "verify"
    /\ objects \in Scenes
    /\ cameraData = CameraDataOf(objects)
    /\ sceneCamera = NoName
    /\ engine = "CYCLES"
    /\ settings = NoSettings
    /\ render_count = 0
    /\ cameras = NoYaml
    /\ camIdx = 0
    /\ roverIdx = 0
    /\ rendered = FALSE
    /\ lastArgs = [i \in 1..MaxCamId |-> NoPose]

\* lines 160-169: step 1, look the fixed objects and the rover up, exit()
\* when one is missing
Verify ==
    /\ rpc = "verify"
    /\ rpc' = IF VerifyAndLockObjects(objects) /\ VerifyRoverExists(objects)
              THEN "yaml"
              ELSE "stopped"
    /\ UNCHANGED <<objects, cameraData, sceneCamera, engine, settings,
                   render_count, cameras, camIdx, roverIdx, rendered, lastArgs>>
    /\ UNCHANGED stitchVars

\* lines 175-181: step 2, load the YAML file, exit() when it returns None
LoadYaml ==
    /\ rpc = "yaml"
    /\ \E data \in YamlOutcomes :
          /\ cameras' = data
          /\ rpc' = IF data.ok THEN "engine" ELSE "stopped"
    /\ UNCHANGED <<objects, cameraData, sceneCamera, engine, settings,
                   render_count, camIdx, roverIdx, rendered, lastArgs>>
    /\ UNCHANGED stitchVars

\* lines 187-194: step 3, select the render engine; a Blender release that
\* has no engine of this name raises TypeError on the assignment
SetEngine ==
    /\ rpc = "engine"
    /\ \/ engine' = "BLENDER_EEVEE_NEXT" /\ rpc' = "cam"
       \/ engine' = engine /\ rpc' = "crashed"
    /\ UNCHANGED <<objects, cameraData, sceneCamera, settings,
                   render_count, cameras, camIdx, roverIdx, rendered, lastArgs>>
    /\ UNCHANGED stitchVars

\* lines 196-204: the next camera of the list is created and made the
\* active camera of the scene
CameraStep ==
    /\ rpc = "cam"
    /\ camIdx < Len(cameras.list)
    /\ LET cam == cameras.list[camIdx + 1]
           camera_name == CameraName(cam.id)
           made == CreateOrUpdateCamera(objects, cameraData, camera_name,
                                        cam.location, cam.rotation)
       IN  /\ objects' = made.objects
           /\ cameraData' = made.cameras
           /\ sceneCamera' = made.camera
           /\ lastArgs' = [lastArgs EXCEPT ![cam.id] = <<cam.location, cam.rotation>>]
    /\ camIdx' = camIdx + 1
    /\ roverIdx' = 0
    /\ rpc' = "rover"
    /\ UNCHANGED <<engine, settings, render_count, cameras, rendered>>
    /\ UNCHANGED stitchVars

\* lines 207-231: one pass of the inner loop.  The move fails (the pass is
\* skipped), or the rover is placed, the settings are written and the render
\* is started, which saves an image or raises
RoverStep ==
    /\ rpc = "rover"
    /\ LET rover_pos == rover_positions[roverIdx + 1]
           cam_id == cameras.list[camIdx].id
           local_origin_position == Lookup(objects, LOCAL_ORIGIN_NAME).location
       IN  \/ UNCHANGED <<objects, settings, rendered, render_count>>
           \/ /\ objects' = MoveRoverInFrame(objects, rover_pos.location,
                                             rover_pos.rotation, local_origin_position)
              /\ settings' = SetRenderSettings(resolution_width_px, resolution_height_px,
                                               <<cam_id, rover_pos.id>>)
              /\ rendered' = TRUE
              /\ \/ render_count' = render_count + 1
                 \/ render_count' = render_count
    /\ roverIdx' = roverIdx + 1
    /\ rpc' = IF roverIdx + 1 = Len(rover_positions) THEN "cam" ELSE "rover"
    /\ UNCHANGED <<cameraData, sceneCamera, engine, cameras, camIdx, lastArgs>>
    /\ UNCHANGED stitchVars

\* lines 233-237: the list is exhausted, the summary is printed
Finish ==
    /\ rpc = "cam"
    /\ camIdx = Len(cameras.list)
    /\ rpc' = "done"
    /\ UNCHANGED <<objects, cameraData, sceneCamera, engine, settings,
                   render_count, cameras, camIdx, roverIdx, rendered, lastArgs>>
    /\ UNCHANGED stitchVars

NextRender ==
    \/ Verify
    \/ LoadYaml
    \/ SetEngine
    \/ CameraStep
    \/ RoverStep
    \/ Finish

SpecRender == InitRender /\ [][NextRender]_vars

-----------------------------------------------------------------------------
(* Positions of a run.                                                     *)

\* the ratio-test filter has produced good_matches
FilterDone ==
    /\ pc \notin {"load", "detect", "match", "filter"}
    /\ raisedAt \notin {"detectAndCompute", "filter"}

\* the match-count gate has been decided
GateDone == FilterDone /\ pc # "gate"

\* cv2.findHomography has returned
FitDone == GateDone /\ ~printed /\ pc # "fit"

\* canvas planning has completed
Planned == FitDone /\ pc # "plan" /\ raisedAt # "perspectiveTransform"

\* the warp of the first image has completed
Warped == Planned /\ pc # "warp" /\ raisedAt # "warpPerspective"

\* the paste of the second image has completed
Pasted == Warped /\ pc # "paste" /\ raisedAt # "paste"

-----------------------------------------------------------------------------
(* C1: once the filter has run, query i of matches is retained in          *)
(* good_matches if and only if 4 * d1 < 3 * d2 (d1 < 0.75 * d2) for its    *)
(* best distance d1 and second-best distance d2; a candidate with          *)
(* d1 = 0.75 * d2 is excluded, every retained candidate appears once, in   *)
(* the order of matches, carrying the best neighbour of its query.         *)
C1_RatioTestFilter ==
    FilterDone =>
        /\ \A i \in 1..Len(matches) :
              (\E j \in 1..Len(good_matches) : good_matches[j].queryIdx = i - 1)
              <=> (4 * matches[i][1] < 3 * matches[i][2])
        /\ \A j \in 1..Len(good_matches) :
              /\ good_matches[j].queryIdx + 1 \in 1..Len(matches)
              /\ good_matches[j].distance =
                    matches[good_matches[j].queryIdx + 1][1]
        /\ \A j, k \in 1..Len(good_matches) :
              j < k => good_matches[j].queryIdx < good_matches[k].queryIdx

\* a run that filtered a candidate on the boundary and one below it
C1_Witness ==
    /\ FilterDone
    /\ \E i \in 1..Len(matches) :
          /\ matches[i][2] > 0
          /\ 4 * matches[i][1] = 3 * matches[i][2]
    /\ Len(good_matches) > 0
    /\ Len(good_matches) < Len(matches)

-----------------------------------------------------------------------------
(* C2 as stated: the run ends in the too-few-matches outcome exactly when  *)
(* the filter yields fewer than 4 correspondences.                         *)
C2_FailsExactlyBelowFour ==
    GateDone => (printed <=> Len(good_matches) < 4)

(* C2 amended: the run attempts homography fitting exactly when the filter *)
(* yields more than 10 correspondences; with 10 or fewer it prints the     *)
(* not-enough-matches message and ends with no fit, no canvas, no warp and *)
(* no composite written.                                                   *)
C2_GateAboveTen ==
    GateDone =>
        /\ printed <=> Len(good_matches) <= 10
        /\ printed =>
              /\ pc = "done"
              /\ raised = "none"
              /\ H = NoneH /\ M = NoneH
              /\ warped = NoCanvas /\ result = NoCanvas /\ file = NoCanvas
        /\ ~printed => (pc # "done" \/ Pasted)

\* a run rejected with 10 correspondences, enough for a 4-point fit
C2_Witness ==
    /\ GateDone
    /\ printed
    /\ Len(good_matches) = 10

-----------------------------------------------------------------------------
(* C3 as stated: a homography is accepted for canvas planning only when    *)
(* its inlier count is at least 10.                                        *)
C3_AcceptedHasTenInliers ==
    Planned => inliers >= 10

(* C3 amended: the threshold 10 is applied to the number of filtered       *)
(* correspondences, not to the inlier count: whenever more than 10         *)
(* correspondences pass the filter and findHomography returns a matrix,    *)
(* that matrix is the one used for canvas planning and, composed with the  *)
(* translation, for the warp, whatever its inlier count.                   *)
C3_GateOnMatchesNotInliers ==
    Planned =>
        /\ Len(good_matches) > 10
        /\ H # NoneH
        /\ x_min = BoxMin(AllCorners(H, img1, img2), 1)
        /\ y_min = BoxMin(AllCorners(H, img1, img2), 2)
        /\ Warped => M = MatMul(<<<<1, 0, -x_min>>, <<0, 1, -y_min>>,
                                  <<0, 0, 1>>>>, H)

\* a homography with 4 inliers, not the identity, was used for the warp
C3_Witness ==
    /\ Warped
    /\ inliers = 4
    /\ H # Identity
    /\ Det(H) # 0

-----------------------------------------------------------------------------
(* The exact bounding box of the corners of the first image mapped through *)
(* H and the corners of the second image, as fractions.                    *)
ExactMin(axis) == FracMin({c[axis] : c \in AllCorners(H, img1, img2)})
ExactMax(axis) == FracMax({c[axis] : c \in AllCorners(H, img1, img2)})

(* C4: the planned canvas is ceil(xmax) - floor(xmin) wide and             *)
(* ceil(ymax) - floor(ymin) high, and the translation is                   *)
(* (-floor(xmin), -floor(ymin)), for the exact bounding box                *)
(* (xmin, ymin, xmax, ymax).                                               *)
C4_CanvasCeilFloor ==
    Planned =>
        /\ x_max - x_min = Ceil(ExactMax(1)[1], ExactMax(1)[2])
                           - Floor(ExactMin(1)[1], ExactMin(1)[2])
        /\ y_max - y_min = Ceil(ExactMax(2)[1], ExactMax(2)[2])
                           - Floor(ExactMin(2)[1], ExactMin(2)[2])
        /\ translation_dist = << -Floor(ExactMin(1)[1], ExactMin(1)[2]),
                                 -Floor(ExactMin(2)[1], ExactMin(2)[2]) >>

(* C5: after the translation is added, every corner of the first image     *)
(* mapped through H and every corner of the second image has non-negative  *)
(* coordinates and lies inside the canvas rectangle                        *)
(* [0, width] x [0, height].                                               *)
C5_CornersInsideCanvas ==
    Planned =>
        \A c \in AllCorners(H, img1, img2) :
            /\ c[1][1] + translation_dist[1] * c[1][2] >= 0
            /\ c[2][1] + translation_dist[2] * c[2][2] >= 0
            /\ c[1][1] + translation_dist[1] * c[1][2]
                  <= (x_max - x_min) * c[1][2]
            /\ c[2][1] + translation_dist[2] * c[2][2]
                  <= (y_max - y_min) * c[2][2]

-----------------------------------------------------------------------------
(* C6: in the composite every pixel (x, y) of the rectangle                *)
(* [tx, tx + wB) x [ty, ty + hB) is a pixel of the canvas and equals pixel *)
(* (x - tx, y - ty) of the second image, whatever the warp left there.     *)
C6_PasteOverwrites ==
    Pasted =>
        \A x \in translation_dist[1]..(translation_dist[1] + img2.w - 1),
           y \in translation_dist[2]..(translation_dist[2] + img2.h - 1) :
            /\ x >= 0 /\ x < result.w
            /\ y >= 0 /\ y < result.h
            /\ result.px[y + 1][x + 1] =
                  img2.px[y - translation_dist[2] + 1]
                         [x - translation_dist[1] + 1]

\* the paste replaced a pixel that held a sample of the first image
C6_Witness ==
    /\ Pasted
    /\ \E y \in 1..result.h, x \in 1..result.w :
          /\ warped.px[y][x] # 0
          /\ result.px[y][x] # warped.px[y][x]

-----------------------------------------------------------------------------
\* pixel (x, y) of the canvas lies in the rectangle of the second image
InPasteRect(x, y) ==
    /\ x >= translation_dist[1] /\ x < translation_dist[1] + img2.w
    /\ y >= translation_dist[2] /\ y < translation_dist[2] + img2.h

-----------------------------------------------------------------------------
(* C8: once loaded, the two input images are never written: every step of  *)
(* the run leaves img1 and img2 as they were.                              *)
C8_InputsReadOnly ==
    [][pc # "load" => (img1' = img1 /\ img2' = img2)]_vars

\* a completed run: the canvas was warped, pasted and written
C8_Witness ==
    /\ pc = "done"
    /\ Pasted
    /\ file = result
    /\ result # warped
    /\ ~IsNone(img1) /\ ~IsNone(img2)

-----------------------------------------------------------------------------
(* C9 as stated: no missing or non-invertible homography reaches canvas    *)
(* planning or the warp.                                                   *)
C9_NoSingularDownstream ==
    Planned => (H # NoneH /\ Det(H) # 0)

(* C9 amended: when findHomography returns no transform the next step      *)
(* ends the run in an uncaught cv2.error, before any canvas is planned,    *)
(* warped or written, and no transform is put in its place.                *)
C9_NoneStopsBeforePlanning ==
    [][(pc = "plan" /\ H = NoneH) =>
          /\ pc' = "exc"
          /\ raised' = "cv2.error"
          /\ H' = NoneH /\ M' = NoneH
          /\ result' = NoCanvas /\ warped' = NoCanvas /\ file' = NoCanvas
          /\ UNCHANGED <<x_min, y_min, x_max, y_max, translation_dist>>]_vars

\* a run that ended because no transform was returned
C9_Witness ==
    /\ pc = "exc"
    /\ raisedAt = "perspectiveTransform"
    /\ H = NoneH
    /\ Len(good_matches) > 10

-----------------------------------------------------------------------------
(* C10 as stated: the outcome reported for an image that could not be      *)
(* decoded identifies that cause: a run that ends in it had an undecodable *)
(* image.                                                                  *)
C10_OutcomeIdentifiesCause ==
    (pc = "exc" /\ raised = "cv2.error") => (IsNone(img1) \/ IsNone(img2))

(* C10 amended: a failing run ends either with the printed                 *)
(* not-enough-matches message, exactly when the filter yielded at most 10  *)
(* correspondences, or in an uncaught exception (cv2.error or             *)
(* ValueError); an image that could not be decoded ends in an uncaught     *)
(* cv2.error raised by feature detection and never in the printed message. *)
C10_PrintedOrUncaught ==
    (pc \in {"done", "exc"}) =>
        /\ printed <=> (pc = "done" /\ FilterDone /\ Len(good_matches) <= 10)
        /\ (pc = "exc") <=> (raised \in {"cv2.error", "ValueError"})
        /\ (pc = "done") <=> (raised = "none")
        /\ (IsNone(img1) \/ IsNone(img2)) =>
              /\ pc = "exc"
              /\ raised = "cv2.error"
              /\ raisedAt = "detectAndCompute"

\* a run that failed on an undecodable second image
C10_Witness ==
    /\ pc = "exc"
    /\ raised = "cv2.error"
    /\ ~IsNone(img1) /\ IsNone(img2)

-----------------------------------------------------------------------------
(* C11: once the images are loaded a run never waits on external input,    *)
(* and a run that reached the end of the script has written the composite  *)
(* or reported a failure.                                                  *)
C11_NeverWaitsOnInput ==
    /\ pc # "keywait"
    /\ pc = "done" => (file # NoCanvas \/ printed)

-----------------------------------------------------------------------------
(* C13: the planned bounding box never has zero width or zero height, so   *)
(* the warp is never invoked with a canvas of width 0 or height 0; were    *)
(* the box degenerate, the run would end at the warp with no canvas and no *)
(* composite written.                                                      *)
C13_NoEmptyCanvas ==
    Planned =>
        /\ x_max - x_min >= 1
        /\ y_max - y_min >= 1
        /\ Warped => (result.w >= 1 /\ result.h >= 1)
        /\ (x_max - x_min <= 0 \/ y_max - y_min <= 0) =>
              /\ pc \in {"warp", "exc"}
              /\ result = NoCanvas /\ warped = NoCanvas /\ file = NoCanvas

\* a singular homography that collapses the corners of the first image
\* reached the warp
C13_Witness ==
    /\ Warped
    /\ Det(H) = 0
    /\ result.w = img2.w
    /\ result.h = img2.h

-----------------------------------------------------------------------------
(* C14: the filter never raises: for every candidate sequence, also an     *)
(* empty one and one whose queries have fewer than two neighbours, it      *)
(* completes.                                                              *)
C14_FilterNeverErrors ==
    raisedAt # "filter"

-----------------------------------------------------------------------------
\* position of a statement in the script
StageRank(p) ==
    CASE p = "load" -> 0
      [] p = "detect" -> 1
      [] p = "match" -> 2
      [] p = "filter" -> 3
      [] p = "gate" -> 4
      [] p = "fit" -> 5
      [] p = "plan" -> 6
      [] p = "warp" -> 7
      [] p = "paste" -> 8
      [] p = "write" -> 9
      [] p = "waitkey" -> 10
      [] p = "keywait" -> 11
      [] OTHER -> 12

(* C15: every step moves the run forward in the order filter, gate, fit,   *)
(* canvas planning, warp, paste, write, so no stage runs twice; each       *)
(* stage's output is written by that stage only; the file is written only  *)
(* by the write step of a run whose paste completed; and when the gate     *)
(* fails the run ends at once, with no fit and nothing written.            *)
C15_StagesInOrder ==
    [][/\ StageRank(pc) < StageRank(pc')
       /\ good_matches' # good_matches => pc = "filter"
       /\ (H' # H \/ inliers' # inliers) => pc = "fit"
       /\ (x_min' # x_min \/ y_min' # y_min \/ x_max' # x_max
             \/ y_max' # y_max \/ translation_dist' # translation_dist)
          => pc = "plan"
       /\ warped' # warped => pc = "warp"
       /\ result' # result => pc \in {"warp", "paste"}
       /\ file' # file => (pc = "write" /\ Pasted /\ file' = result)
       /\ printed' =>
             /\ pc' = "done"
             /\ pc \in {"gate", "done"}
             /\ H' = NoneH /\ M' = NoneH
             /\ result' = NoCanvas /\ file' = NoCanvas]_vars

\* the composite was written after every stage ran
C15_Witness ==
    /\ pc = "waitkey"
    /\ file = result
    /\ Len(good_matches) > 10
    /\ warped # NoCanvas

-----------------------------------------------------------------------------
(* C16: the translation is non-negative, the canvas is at least as wide    *)
(* and as high as the second image, and the rectangle of the second image  *)
(* lies inside the canvas; the paste never raises and its slice is exactly *)
(* [ty, ty + hB) x [tx, tx + wB), neither clipped nor wrapped.             *)
C16_PasteInsideCanvas ==
    Planned =>
        /\ translation_dist[1] >= 0
        /\ translation_dist[2] >= 0
        /\ x_max - x_min >= img2.w
        /\ y_max - y_min >= img2.h
        /\ translation_dist[1] + img2.w <= x_max - x_min
        /\ translation_dist[2] + img2.h <= y_max - y_min
        /\ raisedAt # "paste"
        /\ Warped =>
              /\ SliceRange(translation_dist[2], translation_dist[2] + img2.h,
                            result.h)
                 = <<translation_dist[2], translation_dist[2] + img2.h>>
              /\ SliceRange(translation_dist[1], translation_dist[1] + img2.w,
                            result.w)
                 = <<translation_dist[1], translation_dist[1] + img2.w>>

\* a paste at a positive offset on both axes whose rectangle ends exactly at
\* the right edge of the canvas
C16_Witness ==
    /\ Pasted
    /\ translation_dist[1] > 0
    /\ translation_dist[2] > 0
    /\ result.w = translation_dist[1] + img2.w
    /\ result.h >= translation_dist[2] + img2.h

-----------------------------------------------------------------------------
(* C17: in every step of the render loop, failed moves and failed renders  *)
(* included, the objects named local and frame_calibration_L keep their    *)
(* location (and every other field); the only objects written are the      *)
(* rover and the objects named Camera_<id>, and besides them only the      *)
(* active camera, the render settings and the loop's own counters change.  *)
C17_FixedObjectsNeverMove ==
    [][(rpc = "cam" \/ rpc = "rover") =>
          (/\ \A o \in objects :
                 o.name.base \in {LOCAL_ORIGIN_NAME, L_MARKER_NAME} => o \in objects'
           /\ \A o \in (objects \ objects') \cup (objects' \ objects) :
                 o.name.base = rover_name \/ o.name.base[1] = "Camera_"
           /\ engine' = engine
           /\ cameras' = cameras)]_vars

\* a finished run over two cameras away from the world origin in which some
\* render was saved and some pass failed, the rover displaced
C17_Witness ==
    /\ rpc = "done"
    /\ camIdx = 2
    /\ render_count \in 1..7
    /\ Lookup(objects, LOCAL_ORIGIN_NAME).location = <<20, -10, 0>>
    /\ Lookup(objects, rover_name).location = <<25, -5, 0>>

\* the three objects are in the scene and the YAML file was loaded
RenderPrerequisites ==
    /\ Contains(objects, LOCAL_ORIGIN_NAME)
    /\ Contains(objects, L_MARKER_NAME)
    /\ Contains(objects, rover_name)
    /\ cameras.ok

(* C18: when the local origin, the L-marker or the rover is missing, or    *)
(* the YAML file cannot be loaded, the script stops, and no step taken     *)
(* while a prerequisite is unmet creates or deletes an object or a camera  *)
(* data-block, moves the rover, changes the active camera, the engine or   *)
(* the settings, or renders; a render starts only with all four met.       *)
C18_StopsBeforeTouchingScene ==
    [][/\ ~RenderPrerequisites =>
             UNCHANGED <<objects, cameraData, sceneCamera, engine, settings,
                         render_count, rendered>>
       /\ (rpc = "verify" /\ ~(/\ Contains(objects, LOCAL_ORIGIN_NAME)
                               /\ Contains(objects, L_MARKER_NAME)
                               /\ Contains(objects, rover_name))) => rpc' = "stopped"
       /\ (rpc = "yaml" /\ ~cameras'.ok) => rpc' = "stopped"
       /\ (rendered' \/ render_count' > 0) => RenderPrerequisites]_vars

\* the script has stopped in a scene that lacks only the L-marker
C18_Witness ==
    /\ rpc = "stopped"
    /\ Contains(objects, LOCAL_ORIGIN_NAME)
    /\ Contains(objects, rover_name)
    /\ ~Contains(objects, L_MARKER_NAME)
    /\ ~rendered /\ engine = "CYCLES" /\ settings = NoSettings

\* the objects whose name is `base` with or without a suffix
Named(objs, base) == {o \in objs : o.name.base = base}

(* C19: after every call of create_or_update_camera the scene holds one    *)
(* object per camera name, carrying the location and rotation of the most  *)
(* recent call with that name, objects of other names are untouched, and   *)
(* a call that repeats the arguments of the previous call with that name   *)
(* leaves the scene, objects and camera data-blocks, as it was.            *)
C19_CameraCreateOrUpdate ==
    [][/\ \A i \in 1..MaxCamId :
             lastArgs'[i] # NoPose =>
                \E o \in objects' :
                   /\ Named(objects', CameraName(i)) = {o}
                   /\ o.name = Name(CameraName(i))
                   /\ <<o.location, o.rotation>> = lastArgs'[i]
       /\ camIdx' = camIdx + 1 =>
             LET cam == cameras.list[camIdx'] IN
             /\ objects' \ Named(objects', CameraName(cam.id))
                   = objects \ Named(objects, CameraName(cam.id))
             /\ lastArgs[cam.id] = <<cam.location, cam.rotation>> =>
                   /\ objects' = objects
                   /\ cameraData' = cameraData]_vars

====
